---- MODULE Spec2Model ----
(***************************************************************************)
(* kdebug.py: the debug-container lifecycle of one process invocation.     *)
(*   select_pod -> target container -> launch_debug_container (create,     *)
(*   diff, wait_for_container_running) -> create_backup | exec_interactive *)
(*   -> cleanup_debug_container -> sys.exit.                               *)
(* The cluster is the environment: every kubectl call draws its outcome    *)
(* (return code and standard output) from a bounded set.                   *)
(***************************************************************************)
EXTENDS Integers, Sequences, FiniteSets, TLC

(* ------------------------------ bounds -------------------------------- *)
\* pods in one listing of the namespace
MaxPods == 2
\* owner references carried by one pod
MaxRefs == 1
\* ephemeral containers already in the pod when the invocation starts
MaxExisting == 1
\* ephemeral containers that appear in the pod across the creation request
MaxNew == 2
\* regular containers declared by the pod
MaxContainers == 2

(* ------------------------- program constants -------------------------- *)
\* wait_for_container_running(..., timeout: int = 60)
Timeout == 60
\* time.sleep(2) of the poll loop
PollInterval == 2

CONTROLLER_ALIASES ==
  [deployment |-> "Deployment", deploy |-> "Deployment",
   statefulset |-> "StatefulSet", sts |-> "StatefulSet",
   daemonset |-> "DaemonSet", ds |-> "DaemonSet"]

failure_states ==
  {"ImagePullBackOff", "ErrImagePull", "CrashLoopBackOff",
   "CreateContainerError", "InvalidImageName", "CreateContainerConfigError"}

(* --------------------------- value helpers ---------------------------- *)
\* Python's None for an Optional[str] / Optional[Dict]
None == "None"

\* a kubectl call: return code and (stripped) standard output
NoneOut == [kind |-> "None"]
EmptyOut == [kind |-> "empty"]
MalformedOut == [kind |-> "malformed"]
TextOut == [kind |-> "text"]

\* `not output`: None or the empty string
Falsy(output) == output.kind \in {"None", "empty"}

\* run_command: with check=True a non-zero return code raises
\* CalledProcessError, which is caught and turned into None; with check=False
\* subprocess.run never raises it, so the stripped stdout is returned
\* whatever the return code.
run_command(res, check) ==
  IF check /\ res.rc # 0 THEN NoneOut ELSE res.stdout

\* names with a prefix structure are sequences of characters
StartsWith(s, p) == Len(p) <= Len(s) /\ SubSeq(s, 1, Len(p)) = p

SeqsUpTo(S, n) == UNION {[1..k -> S] : k \in 0..n}

RECURSIVE SelectSeq2(_, _, _)
\* [x for x in s if Test(x, a)] with the test passed as a set membership
SelectSeq2(s, keep, i) ==
  IF i > Len(s) THEN <<>>
  ELSE (IF s[i] \in keep THEN <<s[i]>> ELSE <<>>) \o SelectSeq2(s, keep, i + 1)

Range(s) == {s[i] : i \in 1..Len(s)}

(* ------------------------------ resolver ------------------------------ *)
ControllerNames == {<<"w">>, <<"w", "x">>}
\* owner references a pod may carry: a controller of each kind named "w",
\* and ReplicaSets named "w", "w-a" and "wx-a"
OwnerRefs ==
  {[kind |-> k, name |-> <<"w">>] :
      k \in {"Deployment", "StatefulSet", "DaemonSet", "ReplicaSet"}}
  \cup {[kind |-> "ReplicaSet", name |-> n] :
          n \in {<<"w", "-", "a">>, <<"w", "x", "-", "a">>}}
PodNames == <<"pod-0", "pod-1", "pod-2", "pod-3">>

\* the ownerReferences of one pod: at most MaxRefs references
RefLists == SeqsUpTo(OwnerRefs, MaxRefs)

\* the items of `kubectl get pods -o json`: pod i of the listing is named
\* PodNames[i] and carries the owner references refs[i]
PodList(refs) ==
  [i \in DOMAIN refs |-> [name |-> PodNames[i], ownerReferences |-> refs[i]]]

\* kubectl get pods: a failure, an unparseable output, or a listing
FailedResponses ==
  {[rc |-> 1, stdout |-> EmptyOut], [rc |-> 0, stdout |-> MalformedOut]}

PodsResponse(items) == [rc |-> 0, stdout |-> [kind |-> "json", items |-> items]]

\* the first loop over owner_refs: direct ownership
DirectMatch(pod, controller_kind, controller_name) ==
  \E i \in 1..Len(pod.ownerReferences) :
     /\ pod.ownerReferences[i].kind = controller_kind
     /\ pod.ownerReferences[i].name = controller_name

\* mutant: the prefix test without the "-" separator
ReplicaSetMatch_NoDash(pod, controller_kind, controller_name) ==
  /\ controller_kind = "Deployment"
  /\ \E i \in 1..Len(pod.ownerReferences) :
        /\ pod.ownerReferences[i].kind = "ReplicaSet"
        /\ StartsWith(pod.ownerReferences[i].name, controller_name)

\* the second loop: a ReplicaSet whose name starts with "<name>-"
ReplicaSetMatch(pod, controller_kind, controller_name) ==
  /\ controller_kind = "Deployment"
  /\ \E i \in 1..Len(pod.ownerReferences) :
        /\ pod.ownerReferences[i].kind = "ReplicaSet"
        /\ StartsWith(pod.ownerReferences[i].name, controller_name \o <<"-">>)

PodMatches(pod, controller_kind, controller_name) ==
  \/ DirectMatch(pod, controller_kind, controller_name)
  \/ ReplicaSetMatch(pod, controller_kind, controller_name)

RECURSIVE MatchingPods(_, _, _, _)
\* the loop over pods_data["items"], in listing order, one append per pod
MatchingPods(items, controller_kind, controller_name, i) ==
  IF i > Len(items) THEN <<>>
  ELSE (IF PodMatches(items[i], controller_kind, controller_name)
        THEN <<items[i].name>> ELSE <<>>)
       \o MatchingPods(items, controller_kind, controller_name, i + 1)

\* mutant: an unknown type passed on as the kind to look for
ControllerKind_Passthrough(controller_type) ==
  IF controller_type \in DOMAIN CONTROLLER_ALIASES
  THEN CONTROLLER_ALIASES[controller_type] ELSE controller_type

\* CONTROLLER_ALIASES.get(controller_type.lower())
ControllerKind(controller_type) ==
  IF controller_type \in DOMAIN CONTROLLER_ALIASES
  THEN CONTROLLER_ALIASES[controller_type] ELSE None

get_pods_by_controller(controller_type, controller_name, res) ==
  LET controller_kind == ControllerKind(controller_type)
      output == run_command(res, FALSE)
  IN IF controller_kind = None THEN <<>>
     ELSE IF Falsy(output) THEN <<>>
     ELSE IF output.kind = "malformed" THEN <<>>
     ELSE MatchingPods(output.items, controller_kind, controller_name, 1)

\* what get_pods_by_controller prints to stderr
get_pods_by_controller_stderr(controller_type, res) ==
  LET controller_kind == ControllerKind(controller_type)
      output == run_command(res, FALSE)
  IN IF controller_kind = None THEN <<"Unknown controller type">>
     ELSE IF Falsy(output) THEN <<"Failed to get pods">>
     ELSE IF output.kind = "malformed" THEN <<"Error parsing pods JSON">>
     ELSE <<>>

\* get_pod_by_name: the named pod's descriptor, or None
PodResponses(pod_name) ==
  FailedResponses \cup {[rc |-> 0, stdout |-> [kind |-> "json", name |-> pod_name]]}

get_pod_by_name(res) ==
  LET output == run_command(res, FALSE)
  IN IF Falsy(output) THEN None
     ELSE IF output.kind = "malformed" THEN None
     ELSE output.name

\* what get_pod_by_name prints to stderr
get_pod_by_name_stderr(res) ==
  LET output == run_command(res, FALSE)
  IN IF Falsy(output) THEN <<"Pod not found">>
     ELSE IF output.kind = "malformed" THEN <<"Error parsing pod JSON">>
     ELSE <<>>

\* mutant: the last matching pod instead of the first
select_pod_Last(a, res) ==
  IF a.pod # None THEN get_pod_by_name(res)
  ELSE IF a.controller # None
  THEN IF a.controller_name = <<>> THEN None
       ELSE LET pods == get_pods_by_controller(a.controller, a.controller_name, res)
            IN IF pods = <<>> THEN None ELSE pods[Len(pods)]
  ELSE None

\* select_pod: direct selection, else the first pod of the controller
select_pod(a, res) ==
  IF a.pod # None THEN get_pod_by_name(res)
  ELSE IF a.controller # None
  THEN IF a.controller_name = <<>> THEN None
       ELSE LET pods == get_pods_by_controller(a.controller, a.controller_name, res)
            IN IF pods = <<>> THEN None ELSE pods[1]
  ELSE None

\* what select_pod and its callees print to stderr, in order
select_pod_stderr(a, res) ==
  IF a.pod # None THEN get_pod_by_name_stderr(res)
  ELSE IF a.controller # None
  THEN IF a.controller_name = <<>> THEN <<"--controller-name is required">>
       ELSE get_pods_by_controller_stderr(a.controller, res)
            \o (IF get_pods_by_controller(a.controller, a.controller_name, res) = <<>>
                THEN <<"No pods found">> ELSE <<>>)
  ELSE <<"Either --pod or --controller must be specified">>

(* ------------------------- container inventory ------------------------ *)
RegularNames == <<"app", "sidecar", "proxy", "agent">>
InitNames == <<"init">>
EphemeralNames ==
  <<"debugger-a", "debugger-b", "debugger-c", "debugger-d", "debugger-e">>

Prefix(s, n) == SubSeq(s, 1, n)

\* `kubectl get pod -o json` as read by get_pod_containers: the pod's spec
InventoryResponses(eph) ==
  FailedResponses
  \cup {[rc |-> 0, stdout |-> [kind |-> "json",
                                containers |-> Prefix(RegularNames, n),
                                initContainers |-> InitNames,
                                ephemeralContainers |-> eph]] :
          n \in 0..MaxContainers}

EmptyInventory ==
  [containers |-> <<>>, init_containers |-> <<>>, ephemeral_containers |-> <<>>]

\* mutant: the init containers listed ahead of the regular ones
get_pod_containers_InitFirst(res) ==
  LET output == run_command(res, TRUE)
  IN IF Falsy(output) THEN EmptyInventory
     ELSE IF output.kind = "malformed" THEN EmptyInventory
     ELSE [containers |-> output.initContainers \o output.containers,
           init_containers |-> output.initContainers,
           ephemeral_containers |-> output.ephemeralContainers]

\* get_pod_containers: the three name lists of the pod's spec, all empty
\* when the fetch fails or its output does not parse
get_pod_containers(res) ==
  LET output == run_command(res, TRUE)
  IN IF Falsy(output) THEN EmptyInventory
     ELSE IF output.kind = "malformed" THEN EmptyInventory
     ELSE [containers |-> output.containers,
           init_containers |-> output.initContainers,
           ephemeral_containers |-> output.ephemeralContainers]

get_existing_ephemeral_containers(res) ==
  get_pod_containers(res).ephemeral_containers

\* mutant: the second snapshot taken as it is, without the difference
NewContainerNames_NoDiff(new_containers, existing_containers) == new_containers

\* [name for name in new_containers if name not in existing_containers]
NewContainerNames(new_containers, existing_containers) ==
  SelectSeq2(new_containers,
             Range(new_containers) \ Range(existing_containers), 1)

\* debug_container = new_container_names[0]
PickDebugContainer(new_container_names) == new_container_names[1]

(* ------------------------ wait_for_container_running ------------------ *)
\* a container state as the cluster reports it: at most one of running,
\* waiting, terminated is set; a waiting state may lack its reason
ContainerStates ==
  {[keys |-> {}, reason |-> None],
   [keys |-> {"running"}, reason |-> None],
   [keys |-> {"terminated"}, reason |-> None],
   [keys |-> {"waiting"}, reason |-> None],
   [keys |-> {"waiting"}, reason |-> "ContainerCreating"],
   [keys |-> {"waiting"}, reason |-> "ImagePullBackOff"]}

\* the states of another ephemeral container that could end a poll loop
\* that looked at the wrong entry
OtherStates ==
  {st \in ContainerStates :
     st.keys # {} /\ (st.keys = {"waiting"} => st.reason \in failure_states)}

\* status.ephemeralContainerStatuses: one entry per name, for the container
\* polled (name) and at most one other ephemeral container (other)
StatusLists(name, others) ==
  {<<>>}
  \cup {<<[name |-> name, state |-> st]>> : st \in ContainerStates}
  \cup {<<[name |-> o, state |-> st]>> : o \in others, st \in OtherStates}
  \cup UNION {{<<[name |-> name, state |-> st], [name |-> o, state |-> so]>>,
               <<[name |-> o, state |-> so], [name |-> name, state |-> st]>>} :
                st \in ContainerStates, o \in others, so \in OtherStates}

\* `kubectl get pod -o json` as the poll loop reads it: a failed command, an
\* unparseable or empty output, or the pod's status
StatusResponses(name, others) ==
  FailedResponses
  \cup {[rc |-> 0, stdout |-> EmptyOut]}
  \cup {[rc |-> 0, stdout |-> [kind |-> "json", statuses |-> l]] :
          l \in StatusLists(name, others)}

\* waiting_info.get("reason", "Unknown")
WaitingReason(state) == IF state.reason = None THEN "Unknown" ELSE state.reason

\* mutant: the transient reason printed on every tick
InspectState_LogsEveryTick(state, last) ==
  IF "running" \in state.keys
  THEN [ret |-> "running", last_reason |-> last, logged |-> FALSE]
  ELSE IF "waiting" \in state.keys
  THEN IF WaitingReason(state) \in failure_states
       THEN [ret |-> "failed_waiting", last_reason |-> last, logged |-> FALSE]
       ELSE [ret |-> "none", last_reason |-> WaitingReason(state), logged |-> TRUE]
  ELSE IF "terminated" \in state.keys
  THEN [ret |-> "failed_terminated", last_reason |-> last, logged |-> FALSE]
  ELSE IF last # "NoState"
  THEN [ret |-> "none", last_reason |-> "NoState", logged |-> TRUE]
  ELSE [ret |-> "none", last_reason |-> last, logged |-> FALSE]

\* mutant: a terminated state taken for a state that may still change
InspectState_TerminatedIgnored(state, last) ==
  IF "running" \in state.keys
  THEN [ret |-> "running", last_reason |-> last, logged |-> FALSE]
  ELSE IF "waiting" \in state.keys
  THEN IF WaitingReason(state) \in failure_states
       THEN [ret |-> "failed_waiting", last_reason |-> last, logged |-> FALSE]
       ELSE IF WaitingReason(state) # last
       THEN [ret |-> "none", last_reason |-> WaitingReason(state), logged |-> TRUE]
       ELSE [ret |-> "none", last_reason |-> last, logged |-> FALSE]
  ELSE IF last # "NoState"
  THEN [ret |-> "none", last_reason |-> "NoState", logged |-> TRUE]
  ELSE [ret |-> "none", last_reason |-> last, logged |-> FALSE]

\* mutant: a terminal waiting reason handled like a transient one
InspectState_NoImmediateFailure(state, last) ==
  IF "running" \in state.keys
  THEN [ret |-> "running", last_reason |-> last, logged |-> FALSE]
  ELSE IF "waiting" \in state.keys
  THEN IF WaitingReason(state) # last
       THEN [ret |-> "none", last_reason |-> WaitingReason(state), logged |-> TRUE]
       ELSE [ret |-> "none", last_reason |-> last, logged |-> FALSE]
  ELSE IF "terminated" \in state.keys
  THEN [ret |-> "failed_terminated", last_reason |-> last, logged |-> FALSE]
  ELSE IF last # "NoState"
  THEN [ret |-> "none", last_reason |-> "NoState", logged |-> TRUE]
  ELSE [ret |-> "none", last_reason |-> last, logged |-> FALSE]

\* the if/elif chain on one matching status entry; ret is the return
\* statement taken ("none": the loop goes on)
InspectState(state, last) ==
  IF "running" \in state.keys
  THEN [ret |-> "running", last_reason |-> last, logged |-> FALSE]
  ELSE IF "waiting" \in state.keys
  THEN IF WaitingReason(state) \in failure_states
       THEN [ret |-> "failed_waiting", last_reason |-> last, logged |-> FALSE]
       ELSE IF WaitingReason(state) # last
       THEN [ret |-> "none", last_reason |-> WaitingReason(state), logged |-> TRUE]
       ELSE [ret |-> "none", last_reason |-> last, logged |-> FALSE]
  ELSE IF "terminated" \in state.keys
  THEN [ret |-> "failed_terminated", last_reason |-> last, logged |-> FALSE]
  ELSE IF last # "NoState"
  THEN [ret |-> "none", last_reason |-> "NoState", logged |-> TRUE]
  ELSE [ret |-> "none", last_reason |-> last, logged |-> FALSE]

RECURSIVE InspectStatuses_AnyName(_, _, _, _, _)
\* mutant: every status entry inspected, without the test on its name
InspectStatuses_AnyName(statuses, i, container_name, last, logged) ==
  IF i > Len(statuses)
  THEN [ret |-> "none", last_reason |-> last, logged |-> logged]
  ELSE LET r == InspectState(statuses[i].state, last)
       IN IF r.ret # "none" THEN [r EXCEPT !.logged = logged]
          ELSE InspectStatuses_AnyName(statuses, i + 1, container_name,
                                       r.last_reason, logged \/ r.logged)

RECURSIVE InspectStatuses(_, _, _, _, _)
\* for status in ephemeral_statuses: if status.get("name") == container_name
InspectStatuses(statuses, i, container_name, last, logged) ==
  IF i > Len(statuses)
  THEN [ret |-> "none", last_reason |-> last, logged |-> logged]
  ELSE IF statuses[i].name = container_name
  THEN LET r == InspectState(statuses[i].state, last)
       IN IF r.ret # "none" THEN [r EXCEPT !.logged = logged]
          ELSE InspectStatuses(statuses, i + 1, container_name,
                               r.last_reason, logged \/ r.logged)
  ELSE InspectStatuses(statuses, i + 1, container_name, last, logged)

\* mutant: an unparseable payload ends the wait with a failure
PollTick_MalformedFails(output, container_name, last) ==
  IF Falsy(output)
  THEN [ret |-> "none", last_reason |-> last, logged |-> FALSE]
  ELSE IF output.kind = "malformed"
  THEN [ret |-> "failed_waiting", last_reason |-> last, logged |-> FALSE]
  ELSE InspectStatuses(output.statuses, 1, container_name, last, FALSE)

\* mutant: the first status entry inspected, whatever its name
PollTick_FirstEntry(output, container_name, last) ==
  IF Falsy(output)
  THEN [ret |-> "none", last_reason |-> last, logged |-> FALSE]
  ELSE IF output.kind = "malformed"
  THEN [ret |-> "none", last_reason |-> last, logged |-> FALSE]
  ELSE IF output.statuses = <<>>
  THEN [ret |-> "none", last_reason |-> last, logged |-> FALSE]
  ELSE InspectState(output.statuses[1].state, last)

\* one iteration of the while loop on a fetched output
PollTick(output, container_name, last) ==
  IF Falsy(output)
  THEN [ret |-> "none", last_reason |-> last, logged |-> FALSE]
  ELSE IF output.kind = "malformed"
  THEN [ret |-> "none", last_reason |-> last, logged |-> FALSE]
  ELSE InspectStatuses(output.statuses, 1, container_name, last, FALSE)

(* ------------------------------ executor ------------------------------ *)
\* the outcome of a kubectl exec / kubectl cp issued by create_backup
CmdResponses == [rc : {0, 1}, stdout : {EmptyOut, TextOut}]

BackupPaths == {"/var/configs", "/data"}

\* os.path.dirname(backup_path)
Dirname(path) == IF path = "/var/configs" THEN "/var" ELSE "/"

\* exit codes of the remote process of an interactive session
RemoteCodes == {0, 1, 127}


(* -------------------------------- state ------------------------------- *)
VARIABLES
  pc,                  \* position of the invocation in main
  args,                \* the parsed command line
  pod,                 \* main: name of the selected pod
  pods_data,           \* get_pods_by_controller: the listing it read
  matching_pods,       \* get_pods_by_controller: its result
  stderr,              \* error lines the resolver printed, in order
  target_container,    \* main: target container
  cluster_ephemeral,   \* cluster: the pod's spec.ephemeralContainers
  ephemeral_before,    \* cluster: that list when the creation request was made
  existing_containers, \* main: snapshot before the creation request
  new_containers,      \* launch_debug_container: snapshot after it
  debug_container,     \* launch_debug_container / main: the debug container
  elapsed,             \* time.time() - start_time
  last_reason,         \* wait_for_container_running: last printed status
  output,              \* wait_for_container_running: output of this tick
  ticks,               \* fetches issued by the poll loop
  sleeps,              \* time.sleep(2) calls of the poll loop
  logged,              \* the last tick printed a "Container status" line
  wait_outcome,        \* return statement wait_for_container_running took
  exit_code,           \* main: exit_code
  exit_status,         \* status the process exited with, -1 while it runs
  issued               \* kubectl debug/exec/cp commands issued, in order

vars ==
  <<pc, args, pod, pods_data, matching_pods, stderr, target_container,
    cluster_ephemeral, ephemeral_before, existing_containers, new_containers,
    debug_container,
    elapsed, last_reason, output, ticks, sleeps, logged, wait_outcome,
    exit_code, exit_status, issued>>

resolveVars == <<pod, pods_data, matching_pods, stderr>>
pollVars == <<elapsed, last_reason, output, ticks, sleeps, logged, wait_outcome>>
launchVars ==
  <<cluster_ephemeral, ephemeral_before, existing_containers, new_containers,
    debug_container>>

Running == -1

\* mutant: an interrupt handler that keeps the exit code it finds
SIGINT_STATUS_Kept == exit_code

\* `return 130  # Standard exit code for SIGINT` / `exit_code = 130`
SIGINT_STATUS == 130

\* one entry of the log of issued commands: the kubectl command, its return
\* code (-1 when it did not return), its output, and the container it names
\* (--target of kubectl debug, -c of kubectl exec and kubectl cp)
Entry(name, rc, out, container) ==
  [cmd |-> name, rc |-> rc, out |-> out, container |-> container,
   root |-> "", path |-> None]

\* the remote path a command of create_backup is given
RemotePath(name) ==
  CASE name = "verify" -> args.backup
    [] name = "parent" -> Dirname(args.backup)
    [] name = "archive" -> args.backup
    [] name = "cp" -> IF args.compress THEN "/tmp/kdebug-backup.tar.gz"
                      ELSE args.backup
    [] name = "rm" -> "/tmp/kdebug-backup.tar.gz"

\* a command of create_backup: `kubectl exec ... -c {container_name} -- ...`
\* with container_name = the debug container main passes, the path written
\* into the command as it is (root: what is put before it, nothing)
BackupEntry(name, rc, out) ==
  [cmd |-> name, rc |-> rc, out |-> out, container |-> debug_container,
   root |-> "", path |-> RemotePath(name)]

\* mutant: the commands of create_backup run in the target container
Cmd_InTarget(name, res) ==
  [BackupEntry(name, res.rc, res.stdout.kind) EXCEPT !.container = target_container]

\* a command of create_backup, run in container_name = the debug container
Cmd(name, res) == BackupEntry(name, res.rc, res.stdout.kind)

\* args of one invocation: --pod | --controller + --controller-name,
\* --container, --backup, --compress
Args(selections) ==
  {[pod |-> sel.pod, controller |-> sel.controller,
    controller_name |-> sel.controller_name,
    container |-> c, backup |-> b, compress |-> z] :
      sel \in selections, c \in {None, "app"},
      b \in {None} \cup BackupPaths, z \in BOOLEAN}

PodSelection ==
  [pod |-> PodNames[1], controller |-> None, controller_name |-> <<>>]

ControllerSelections(types) ==
  {[pod |-> None, controller |-> t, controller_name |-> n] :
      t \in types, n \in ControllerNames}

InitState(argset, ephemerals) ==
  /\ pc = "select_pod"
  /\ args \in argset
  /\ pod = None
  /\ pods_data = NoneOut
  /\ matching_pods = <<>>
  /\ stderr = <<>>
  /\ target_container = None
  /\ cluster_ephemeral \in ephemerals
  /\ ephemeral_before = <<>>
  /\ existing_containers = <<>>
  /\ new_containers = <<>>
  /\ debug_container = None
  /\ elapsed = 0
  /\ last_reason = None
  /\ output = NoneOut
  /\ ticks = 0
  /\ sleeps = 0
  /\ logged = FALSE
  /\ wait_outcome = "pending"
  /\ exit_code = 0
  /\ exit_status = Running
  /\ issued = <<>>

\* an interactive invocation with --controller sts --controller-name w and
\* no --container
ControllerInvocation ==
  {a \in Args(ControllerSelections({"sts"})) :
     /\ a.controller_name = <<"w">>
     /\ a.container = None /\ a.backup = None /\ ~a.compress}

\* an invocation of main: with --pod (--compress only with --backup), or
\* with --controller on a pod that has no ephemeral container yet
Init ==
  \/ InitState({a \in Args({PodSelection}) : a.compress => a.backup # None},
               {Prefix(EphemeralNames, n) : n \in 0..MaxExisting})
  \/ InitState(ControllerInvocation, {<<>>})

(* ------------------------------- actions ------------------------------ *)
\* sys.exit(status)
Exit(status) == pc' = "exit" /\ exit_status' = status

\* main: pod = select_pod(args); if not pod: sys.exit(1)
SelectPodWith(res) ==
  /\ pod' = select_pod(args, res)
  /\ pods_data' = IF args.pod = None /\ ControllerKind(args.controller) # None
                  THEN run_command(res, FALSE) ELSE NoneOut
  /\ matching_pods' = IF args.pod = None
                      THEN get_pods_by_controller(args.controller,
                                                  args.controller_name, res)
                      ELSE <<>>
  /\ stderr' = select_pod_stderr(args, res)

SelectPod ==
  /\ pc = "select_pod"
  /\ IF args.pod # None
     THEN \E res \in PodResponses(args.pod) : SelectPodWith(res)
     ELSE \/ \E res \in FailedResponses : SelectPodWith(res)
          \/ \E k \in 0..MaxPods : \E refs \in [1..k -> RefLists] :
               SelectPodWith(PodsResponse(PodList(refs)))
  /\ IF pod' = None THEN Exit(1)
     ELSE pc' = "target_container" /\ UNCHANGED exit_status
  /\ UNCHANGED <<args, target_container, exit_code, issued>>
  /\ UNCHANGED launchVars
  /\ UNCHANGED pollVars

\* main: auto-select the first regular container when --container is absent
TargetContainer ==
  /\ pc = "target_container"
  /\ pods_data' = NoneOut
  /\ matching_pods' = <<>>
  /\ IF args.container # None
     THEN /\ target_container' = args.container
          /\ pc' = "snapshot"
          /\ UNCHANGED exit_status
     ELSE \E res \in InventoryResponses(cluster_ephemeral) :
            LET regular_containers == get_pod_containers(res).containers
            IN IF regular_containers = <<>>
               THEN Exit(1) /\ UNCHANGED target_container
               ELSE /\ target_container' = regular_containers[1]
                    /\ pc' = "snapshot"
                    /\ UNCHANGED exit_status
  /\ UNCHANGED <<args, pod, stderr, exit_code, issued>>
  /\ UNCHANGED launchVars
  /\ UNCHANGED pollVars

\* main: existing_containers = get_existing_ephemeral_containers(...)
SnapshotExisting ==
  /\ pc = "snapshot"
  /\ \E res \in InventoryResponses(cluster_ephemeral) :
       existing_containers' = get_existing_ephemeral_containers(res)
  /\ pc' = "launch"
  /\ UNCHANGED <<args, target_container, cluster_ephemeral, ephemeral_before,
                 new_containers,
                 debug_container, exit_code, exit_status, issued>>
  /\ UNCHANGED resolveVars
  /\ UNCHANGED pollVars

\* launch_debug_container up to the choice of the debug container: the
\* creation request (detached, its outcome ignored), the settling delay, the
\* second snapshot and the difference.  Across the request the pod gains
\* 0..MaxNew ephemeral containers (the request may fail; other clients may
\* add their own).
LaunchCreate ==
  /\ pc = "launch"
  /\ issued' = Append(issued, Entry("debug", 0, "empty", target_container))
  /\ \E k \in 0..MaxNew :
       cluster_ephemeral' = Prefix(EphemeralNames, Len(cluster_ephemeral) + k)
  /\ ephemeral_before' = cluster_ephemeral
  /\ \E res \in InventoryResponses(cluster_ephemeral') :
       new_containers' = get_existing_ephemeral_containers(res)
  /\ LET new_container_names ==
           NewContainerNames(new_containers', existing_containers)
     IN IF new_container_names = <<>>
        THEN Exit(1) /\ UNCHANGED debug_container
        ELSE /\ debug_container' = PickDebugContainer(new_container_names)
             /\ pc' = "poll"
             /\ UNCHANGED exit_status
  /\ UNCHANGED <<args, target_container, existing_containers, exit_code>>
  /\ UNCHANGED resolveVars
  /\ UNCHANGED pollVars

\* the other ephemeral container whose status entry a payload may carry
OtherEphemeral ==
  LET others == {i \in 1..Len(cluster_ephemeral) :
                    cluster_ephemeral[i] # debug_container}
  IN IF others = {} THEN {}
     ELSE {cluster_ephemeral[CHOOSE i \in others : \A j \in others : i <= j]}

\* while time.time() - start_time < timeout: output = run_command(cmd)
PollFetch ==
  /\ pc = "poll"
  /\ elapsed < Timeout
  /\ \E res \in StatusResponses(debug_container, OtherEphemeral) :
       output' = run_command(res, TRUE)
  /\ ticks' = ticks + 1
  /\ logged' = FALSE
  /\ pc' = "poll_process"
  /\ UNCHANGED <<args, target_container, elapsed, last_reason, sleeps,
                 wait_outcome, exit_code, exit_status, issued>>
  /\ UNCHANGED resolveVars
  /\ UNCHANGED launchVars

\* mutant: an empty fetch goes straight to the next fetch, without the sleep
PollProcess_NoSleepOnEmpty ==
  /\ pc = "poll_process"
  /\ LET r == PollTick(output, debug_container, last_reason)
     IN IF r.ret = "none"
        THEN /\ last_reason' = r.last_reason
             /\ logged' = r.logged
             /\ sleeps' = IF Falsy(output) THEN sleeps ELSE sleeps + 1
             /\ elapsed' = IF Falsy(output) THEN elapsed ELSE elapsed + PollInterval
             /\ output' = NoneOut
             /\ pc' = "poll"
             /\ UNCHANGED wait_outcome
        ELSE /\ wait_outcome' = r.ret
             /\ pc' = "poll_return"
             /\ UNCHANGED <<last_reason, logged, sleeps, elapsed, output>>
  /\ UNCHANGED <<args, target_container, ticks, exit_code, exit_status, issued>>
  /\ UNCHANGED resolveVars
  /\ UNCHANGED launchVars

\* the body of the loop after the fetch: a return, or time.sleep(2)
PollProcess ==
  /\ pc = "poll_process"
  /\ LET r == PollTick(output, debug_container, last_reason)
     IN IF r.ret = "none"
        THEN /\ last_reason' = r.last_reason
             /\ logged' = r.logged
             /\ sleeps' = sleeps + 1
             /\ elapsed' = elapsed + PollInterval
             /\ output' = NoneOut
             /\ pc' = "poll"
             /\ UNCHANGED wait_outcome
        ELSE /\ wait_outcome' = r.ret
             /\ pc' = "poll_return"
             /\ UNCHANGED <<last_reason, logged, sleeps, elapsed, output>>
  /\ UNCHANGED <<args, target_container, ticks, exit_code, exit_status, issued>>
  /\ UNCHANGED resolveVars
  /\ UNCHANGED launchVars

\* mutant: the loop gives up one interval early
PollTimeout_Early ==
  /\ pc = "poll"
  /\ ~(elapsed < Timeout - PollInterval)
  /\ wait_outcome' = "timeout"
  /\ pc' = "poll_return"
  /\ UNCHANGED <<args, target_container, elapsed, last_reason, output, ticks,
                 sleeps, logged, exit_code, exit_status, issued>>
  /\ UNCHANGED resolveVars
  /\ UNCHANGED launchVars

\* the loop condition fails: the timeout message and return False
PollTimeout ==
  /\ pc = "poll"
  /\ ~(elapsed < Timeout)
  /\ wait_outcome' = "timeout"
  /\ pc' = "poll_return"
  /\ UNCHANGED <<args, target_container, elapsed, last_reason, output, ticks,
                 sleeps, logged, exit_code, exit_status, issued>>
  /\ UNCHANGED resolveVars
  /\ UNCHANGED launchVars

\* mutant: a failed wait sends the invocation back to the creation request
LaunchReturn_Retry ==
  /\ pc = "poll_return"
  /\ IF wait_outcome = "running"
     THEN pc' = "execute" /\ exit_code' = 0 /\ UNCHANGED <<exit_status, debug_container>>
     ELSE pc' = "launch" /\ debug_container' = None /\ UNCHANGED <<exit_code, exit_status>>
  /\ elapsed' = 0
  /\ last_reason' = None
  /\ output' = NoneOut
  /\ ticks' = 0
  /\ sleeps' = 0
  /\ logged' = FALSE
  /\ UNCHANGED <<args, target_container, cluster_ephemeral, ephemeral_before,
                 existing_containers, new_containers, wait_outcome, issued>>
  /\ UNCHANGED resolveVars

\* launch_debug_container returns (the name, or None when the wait failed);
\* main exits with 1 on None, else sets exit_code = 0 and enters the try
LaunchReturn ==
  /\ pc = "poll_return"
  /\ IF wait_outcome = "running"
     THEN pc' = "execute" /\ exit_code' = 0 /\ UNCHANGED <<exit_status, debug_container>>
     ELSE Exit(1) /\ debug_container' = None /\ UNCHANGED exit_code
  /\ elapsed' = 0
  /\ last_reason' = None
  /\ output' = NoneOut
  /\ ticks' = 0
  /\ sleeps' = 0
  /\ logged' = FALSE
  /\ UNCHANGED <<args, target_container, cluster_ephemeral, ephemeral_before,
                 existing_containers, new_containers, wait_outcome, issued>>
  /\ UNCHANGED resolveVars

\* a KeyboardInterrupt outside the try block of main is not caught: the
\* interpreter ends the process with the interrupt status
InterruptProvisioning ==
  /\ pc \in {"snapshot", "launch", "poll"}
  /\ Exit(130)
  /\ UNCHANGED <<args, target_container, exit_code, issued>>
  /\ UNCHANGED resolveVars
  /\ UNCHANGED launchVars
  /\ UNCHANGED pollVars

\* what every action of the try block leaves alone
ExecFrame ==
  /\ UNCHANGED <<args, target_container, exit_status>>
  /\ UNCHANGED resolveVars
  /\ UNCHANGED launchVars
  /\ UNCHANGED pollVars

\* mutant: a failed backup reported with a status of its own
BackupReturn_OwnStatus(success) ==
  /\ exit_code' = IF success THEN 0 ELSE 2
  /\ pc' = "cleanup"

\* create_backup returns: exit_code = 0 if success else 1
BackupReturn(success) ==
  /\ exit_code' = IF success THEN 0 ELSE 1
  /\ pc' = "cleanup"

\* mutant: the remote exit code flattened to success or failure
SessionStatus_Flattened(returncode) == IF returncode = 0 THEN 0 ELSE 1

\* exec_interactive: return result.returncode
SessionStatus(returncode) == returncode

\* mutant: the KeyboardInterrupt handler of exec_interactive leaves the
\* process at once
ExecInteractive_InterruptExits ==
  /\ pc = "execute"
  /\ args.backup = None
  /\ \/ /\ \E rc \in RemoteCodes :
             /\ exit_code' = SessionStatus(rc)
             /\ issued' = Append(issued, Entry("exec", rc, "tty", debug_container))
        /\ pc' = "cleanup"
        /\ UNCHANGED exit_status
     \/ /\ exit_code' = SIGINT_STATUS
        /\ issued' = Append(issued, Entry("exec", -1, "interrupt", debug_container))
        /\ Exit(130)
     \/ /\ exit_code' = 1
        /\ issued' = Append(issued, Entry("exec", -1, "exception", debug_container))
        /\ pc' = "cleanup"
        /\ UNCHANGED exit_status
  /\ UNCHANGED <<args, target_container>>
  /\ UNCHANGED resolveVars
  /\ UNCHANGED launchVars
  /\ UNCHANGED pollVars

\* exec_interactive: the remote exit code, 130 on KeyboardInterrupt, 1 on
\* any other exception of subprocess.run
ExecInteractive ==
  /\ pc = "execute"
  /\ args.backup = None
  /\ \/ \E rc \in RemoteCodes :
          /\ exit_code' = SessionStatus(rc)
          /\ issued' = Append(issued, Entry("exec", rc, "tty", debug_container))
     \/ /\ exit_code' = SIGINT_STATUS
        /\ issued' = Append(issued, Entry("exec", -1, "interrupt", debug_container))
     \/ /\ exit_code' = 1
        /\ issued' = Append(issued, Entry("exec", -1, "exception", debug_container))
  /\ pc' = "cleanup"
  /\ ExecFrame

\* mutant: the presence check tested like the later steps, `result is None`
PathMissing_NoneOnly(result) == result = NoneOut

\* create_backup: `not result or result.strip() == ""`
PathMissing(result) == Falsy(result)

\* create_backup: the presence check; on absence the parent-directory probe
\* and return False; on presence os.makedirs, which may raise OSError
BackupVerify ==
  /\ pc = "execute"
  /\ args.backup # None
  /\ \E res \in CmdResponses :
       LET result == run_command(res, FALSE)
       IN IF PathMissing(result)
          THEN /\ IF Dirname(args.backup) # "" /\ Dirname(args.backup) # "/"
                  THEN \E pres \in CmdResponses :
                         issued' = issued \o <<Cmd("verify", res), Cmd("parent", pres)>>
                  ELSE issued' = Append(issued, Cmd("verify", res))
               /\ BackupReturn(FALSE)
          ELSE /\ issued' = Append(issued, Cmd("verify", res))
               /\ \/ /\ pc' = IF args.compress THEN "backup_archive" ELSE "backup_copy"
                     /\ UNCHANGED exit_code
                  \/ /\ exit_code' = 1
                     /\ pc' = "cleanup"
  /\ ExecFrame

\* create_backup, compressed: tar czf /tmp/kdebug-backup.tar.gz <path>
BackupArchive ==
  /\ pc = "backup_archive"
  /\ \E res \in CmdResponses :
       LET result == run_command(res, FALSE)
       IN /\ issued' = Append(issued, Cmd("archive", res))
          /\ IF result = NoneOut
             THEN BackupReturn(FALSE)
             ELSE pc' = "backup_copy" /\ UNCHANGED exit_code
  /\ ExecFrame

\* create_backup: kubectl cp of the archive or of the path itself
BackupCopy ==
  /\ pc = "backup_copy"
  /\ \E res \in CmdResponses :
       LET result == run_command(res, FALSE)
       IN /\ issued' = Append(issued, Cmd("cp", res))
          /\ IF result = NoneOut
             THEN BackupReturn(FALSE)
             ELSE IF args.compress
             THEN pc' = "backup_remove" /\ UNCHANGED exit_code
             ELSE BackupReturn(TRUE)
  /\ ExecFrame

\* mutant: a failed removal of the remote archive fails the backup
BackupRemove_Checked ==
  /\ pc = "backup_remove"
  /\ \E res \in CmdResponses :
       /\ issued' = Append(issued, Cmd("rm", res))
       /\ BackupReturn(res.rc = 0)
  /\ ExecFrame

\* create_backup, compressed: rm -f of the remote archive, outcome ignored
BackupRemove ==
  /\ pc = "backup_remove"
  /\ \E res \in CmdResponses :
       issued' = Append(issued, Cmd("rm", res))
  /\ BackupReturn(TRUE)
  /\ ExecFrame

\* the command create_backup runs at a position of the backup
BackupCommand(at) ==
  CASE at = "execute" -> "verify"
    [] at = "backup_archive" -> "archive"
    [] at = "backup_copy" -> "cp"
    [] at = "backup_remove" -> "rm"

\* mutant: the cleanup call after the try statement instead of in finally
InterruptBackup_NoFinally ==
  /\ \/ pc = "execute" /\ args.backup # None
     \/ pc \in {"backup_archive", "backup_copy", "backup_remove"}
  /\ exit_code' = SIGINT_STATUS
  /\ Exit(130)
  /\ issued' = Append(issued, BackupEntry(BackupCommand(pc), -1, "interrupt"))
  /\ UNCHANGED <<args, target_container>>
  /\ UNCHANGED resolveVars
  /\ UNCHANGED launchVars
  /\ UNCHANGED pollVars

\* main: except KeyboardInterrupt around create_backup.  The interrupt
\* arrives while the command of the current step runs: the command is issued
\* and does not return
InterruptBackup ==
  /\ \/ pc = "execute" /\ args.backup # None
     \/ pc \in {"backup_archive", "backup_copy", "backup_remove"}
  /\ exit_code' = SIGINT_STATUS
  /\ pc' = "cleanup"
  /\ issued' = Append(issued, BackupEntry(BackupCommand(pc), -1, "interrupt"))
  /\ ExecFrame

\* mutant: a failed cleanup command turns a success into a failure
Cleanup_Escalates ==
  /\ pc = "cleanup"
  /\ \E rc \in {0, 1} :
       /\ issued' = Append(issued, Entry("cleanup", rc, "empty", debug_container))
       /\ Exit(IF rc # 0 /\ exit_code = 0 THEN 1 ELSE exit_code)
  /\ UNCHANGED <<args, target_container, exit_code>>
  /\ UNCHANGED resolveVars
  /\ UNCHANGED launchVars
  /\ UNCHANGED pollVars

\* main: finally: cleanup_debug_container(...), then sys.exit(exit_code)
Cleanup ==
  /\ pc = "cleanup"
  /\ \E rc \in {0, 1} :
       issued' = Append(issued, Entry("cleanup", rc, "empty", debug_container))
  /\ Exit(exit_code)
  /\ UNCHANGED <<args, target_container, exit_code>>
  /\ UNCHANGED resolveVars
  /\ UNCHANGED launchVars
  /\ UNCHANGED pollVars

Next ==
  \/ SelectPod
  \/ TargetContainer
  \/ SnapshotExisting
  \/ LaunchCreate
  \/ PollFetch
  \/ PollProcess
  \/ PollTimeout
  \/ LaunchReturn
  \/ InterruptProvisioning
  \/ ExecInteractive
  \/ BackupVerify
  \/ BackupArchive
  \/ BackupCopy
  \/ BackupRemove
  \/ InterruptBackup
  \/ Cleanup

Spec == Init /\ [][Next]_vars

\* the resolver alone, over every alias and an unknown type
InitResolve ==
  InitState({a \in Args({PodSelection}
                        \cup ControllerSelections(DOMAIN CONTROLLER_ALIASES \cup {"job"})) :
               a.container = None /\ a.backup = None /\ ~a.compress},
            {<<>>})

NextResolve == SelectPod

SpecResolve == InitResolve /\ [][NextResolve]_vars

\* wait_for_container_running alone: the state in which launch_debug_container
\* calls it (the pod has gained 1..MaxNew ephemeral containers, the first of
\* them is the debug container), then the loop until it returns.  The loop is
\* sequential code: each fetch returns and each sleep ends, so its next step
\* is always taken.
InitWait ==
  /\ pc = "poll"
  /\ args \in {a \in Args({PodSelection}) :
                 a.container = "app" /\ a.backup = None /\ ~a.compress}
  /\ pod = PodNames[1]
  /\ pods_data = NoneOut
  /\ matching_pods = <<>>
  /\ stderr = <<>>
  /\ target_container = "app"
  /\ cluster_ephemeral \in {Prefix(EphemeralNames, n) : n \in 1..MaxNew}
  /\ ephemeral_before = <<>>
  /\ existing_containers = <<>>
  /\ new_containers = cluster_ephemeral
  /\ debug_container = PickDebugContainer(new_containers)
  /\ elapsed = 0
  /\ last_reason = None
  /\ output = NoneOut
  /\ ticks = 0
  /\ sleeps = 0
  /\ logged = FALSE
  /\ wait_outcome = "pending"
  /\ exit_code = 0
  /\ exit_status = Running
  /\ issued = <<Entry("debug", 0, "empty", target_container)>>

NextWait ==
  \/ PollFetch
  \/ PollProcess
  \/ PollTimeout

SpecWait == InitWait /\ [][NextWait]_vars /\ WF_vars(NextWait)

(* ------------------------------- claims ------------------------------- *)
\* positions of a command in the log
Issued(name) == {i \in 1..Len(issued) : issued[i].cmd = name}

\* the Executor was started: provisioning returned a debug container
ExecutorStarted ==
  pc \in {"execute", "backup_archive", "backup_copy", "backup_remove", "cleanup"}
  \/ (pc = "exit" /\ wait_outcome = "running")

\* C1: when the Executor was started, cleanup_debug_container is invoked
\* exactly once, as the last command of the invocation, after the operation
\* has ended and before the process exits, whatever the operation's outcome.
C1_CleanupExactlyOnce ==
  /\ Cardinality(Issued("cleanup")) <= 1
  /\ Issued("cleanup") # {} => pc = "exit" /\ issued[Len(issued)].cmd = "cleanup"
  /\ (pc = "exit" /\ ExecutorStarted) => Cardinality(Issued("cleanup")) = 1
  /\ (pc # "exit" /\ ExecutorStarted) => Issued("cleanup") = {}

\* an interrupted backup that was cleaned up once
C1_Witness ==
  /\ pc = "exit"
  /\ exit_status = 130
  /\ args.backup # None
  /\ Issued("cp") # {}
  /\ Cardinality(Issued("cleanup")) = 1

\* C2 (as claimed): once the creation request was submitted, every exit is
\* preceded by a cleanup attempt.
C2_Original ==
  (pc = "exit" /\ Issued("debug") # {}) => Issued("cleanup") # {}

\* C2 (amended): after the creation request, an exit is preceded by a cleanup
\* attempt exactly when provisioning returned a running debug container; an
\* exit from provisioning (no new name, Failed, TimedOut, interrupt) has a
\* non-zero status and no cleanup attempt.
C2_CleanupOnlyAfterProvisioning ==
  (pc = "exit" /\ Issued("debug") # {}) =>
     /\ (Issued("cleanup") # {}) <=> (wait_outcome = "running")
     /\ wait_outcome # "running" => exit_status \in {1, 130}

\* provisioning timed out and the process left without a cleanup attempt
C2_Witness ==
  /\ pc = "exit"
  /\ Issued("debug") # {}
  /\ wait_outcome = "timeout"
  /\ exit_status = 1
  /\ Issued("cleanup") = {}

\* names of the second snapshot that the first one lacks
NewNames == Range(new_containers) \ Range(existing_containers)

\* C3: after the creation request, exactly one new name => that name is the
\* debug container that is polled and returned; no new name => the invocation
\* fails with status 1 without polling and without any operation.
C3_OneNewNameIsUsed ==
  Issued("debug") # {} =>
    /\ \A n \in NewNames :
         NewNames = {n} =>
           \/ debug_container = n
           \/ pc = "exit" /\ wait_outcome \notin {"pending", "running"}
                          /\ debug_container = None
    /\ NewNames = {} =>
         /\ pc = "exit"
         /\ exit_status = 1
         /\ debug_container = None
         /\ wait_outcome = "pending"
         /\ ticks = 0
         /\ issued = <<Entry("debug", 0, "empty", target_container)>>

\* the pod already had an ephemeral container; the one new name runs the
\* operation
C3_Witness ==
  /\ pc = "execute"
  /\ existing_containers # <<>>
  /\ Cardinality(NewNames) = 1
  /\ debug_container \in NewNames

\* C4 (as claimed): more than one new name => no name is picked, no polling
\* starts, no operation runs.
C4_AmbiguousFails ==
  (Issued("debug") # {} /\ Cardinality(NewNames) > 1) =>
     /\ debug_container = None
     /\ pc = "exit"
     /\ exit_status = 1
     /\ wait_outcome = "pending"


\* the terminal-failure reasons as the specification lists them
TerminalReasons ==
  {"ImagePullBackOff", "ErrImagePull", "CrashLoopBackOff",
   "CreateContainerError", "InvalidImageName", "CreateContainerConfigError"}

\* the fetched payload has an entry for the debug container in one of kinds
DebugEntries(kinds) ==
  IF output.kind # "json" THEN {}
  ELSE {i \in 1..Len(output.statuses) :
          /\ output.statuses[i].name = debug_container
          /\ output.statuses[i].state.keys \cap kinds # {}}

TerminalWaitingObserved ==
  \E i \in DebugEntries({"waiting"}) :
     output.statuses[i].state.reason \in TerminalReasons

\* the poll loop has returned: nothing of it runs again
PollOver ==
  pc = "poll_return" =>
    /\ pc' = "execute" \/ pc' = "exit"
    /\ wait_outcome' = wait_outcome

\* C5: a tick that reads a terminal waiting reason for the debug container
\* returns failure on that tick: no sleep, no further fetch, no time passes,
\* and the loop never resumes.
C5_TerminalWaitingFailsAtOnce ==
  [][/\ (pc = "poll_process" /\ TerminalWaitingObserved) =>
          /\ pc' = "poll_return"
          /\ wait_outcome' = "failed_waiting"
          /\ sleeps' = sleeps
          /\ ticks' = ticks
          /\ elapsed' = elapsed
     /\ PollOver
     /\ (pc = "poll_return" /\ wait_outcome = "failed_waiting") =>
          pc' = "exit" /\ exit_status' = 1]_vars

\* ImagePullBackOff on the first tick of the 60 s timeout
C5_Witness ==
  /\ pc = "poll_return"
  /\ wait_outcome = "failed_waiting"
  /\ ticks = 1
  /\ sleeps = 0
  /\ elapsed = 0
  /\ TerminalWaitingObserved

\* a tick observed running, terminated or a terminal waiting reason
TerminalObserved ==
  \/ DebugEntries({"running", "terminated"}) # {}
  \/ TerminalWaitingObserved

\* C6: the timed-out outcome is taken only with elapsed >= timeout, and no
\* tick that observed running, terminated or a terminal waiting reason lets
\* the loop go on to a later timeout.
C6_TimeoutOnlyAfterDuration ==
  /\ [](wait_outcome = "timeout" /\ pc = "poll_return" => elapsed >= Timeout)
  /\ [][/\ (wait_outcome' = "timeout" /\ wait_outcome # "timeout") =>
             wait_outcome = "pending" /\ pc = "poll" /\ elapsed >= Timeout
        /\ (pc = "poll_process" /\ TerminalObserved) =>
             wait_outcome' \in {"running", "failed_waiting", "failed_terminated"}
        /\ wait_outcome # "pending" => wait_outcome' = wait_outcome]_vars

\* thirty ticks of a transient waiting reason, then the timeout
C6_Witness ==
  /\ pc = "poll_return"
  /\ wait_outcome = "timeout"
  /\ elapsed = Timeout
  /\ ticks = 30
  /\ last_reason = "ContainerCreating"

\* C7 (as claimed): a failed transfer fails the backup: non-zero exit status.
C7_TransferFailureFails ==
  (pc = "exit" /\ \E i \in Issued("cp") : issued[i].rc # 0) => exit_status # 0

\* C8: an empty presence check fails the operation; no archive command and no
\* transfer is issued.
C8_PathNotFound ==
  (\E i \in Issued("verify") : issued[i].out = "empty") =>
     /\ Issued("archive") = {}
     /\ Issued("cp") = {}
     /\ Issued("rm") = {}
     /\ pc \in {"cleanup", "exit"}
     /\ exit_code = 1
     /\ pc = "exit" => exit_status = 1

\* /var/configs is absent: the parent directory was probed, nothing copied
C8_Witness ==
  /\ pc = "exit"
  /\ args.backup = "/var/configs"
  /\ \E i \in Issued("verify") : issued[i].out = "empty"
  /\ Issued("parent") # {}
  /\ exit_status = 1

\* C9: in a compressed backup the archive command follows the presence check,
\* the transfer follows the archive command, the removal follows the transfer;
\* a backup that succeeds has issued all three, and once the removal has
\* returned the result is success whatever it returned.
C9_CompressedOrder ==
  (args.backup # None /\ args.compress) =>
     /\ \A i \in Issued("archive") :
          i > 1 /\ issued[i-1].cmd = "verify" /\ issued[i-1].out # "empty"
     /\ \A i \in Issued("cp") : i > 1 /\ issued[i-1].cmd = "archive"
     /\ \A i \in Issued("rm") : i > 1 /\ issued[i-1].cmd = "cp"
     /\ Cardinality(Issued("archive")) <= 1
     /\ Cardinality(Issued("cp")) <= 1
     /\ Cardinality(Issued("rm")) <= 1
     /\ (\E i \in Issued("rm") : issued[i].out # "interrupt") =>
          pc \in {"cleanup", "exit"} /\ exit_code = 0
     /\ (pc \in {"cleanup", "exit"} /\ ExecutorStarted /\ exit_code = 0) =>
          Issued("rm") # {}

\* the removal of the remote archive failed and the invocation succeeded
C9_Witness ==
  /\ pc = "exit"
  /\ args.compress
  /\ \E i \in Issued("rm") : issued[i].rc # 0
  /\ exit_status = 0


\* get_pods_by_controller read a pod listing for a supported controller kind
ListingRead ==
  /\ pc # "select_pod"
  /\ args.pod = None
  /\ pods_data.kind = "json"

RefsOf(p) == Range(p.ownerReferences)

\* owned by the controller itself
OwnedDirectly(p) ==
  \E ref \in RefsOf(p) :
     ref.kind = ControllerKind(args.controller) /\ ref.name = args.controller_name

\* owned by a ReplicaSet named "<controllerName>-..."
OwnedThroughReplicaSet(p) ==
  \E ref \in RefsOf(p) :
     /\ ref.kind = "ReplicaSet"
     /\ Len(ref.name) > Len(args.controller_name)
     /\ \A k \in 1..Len(args.controller_name) : ref.name[k] = args.controller_name[k]
     /\ ref.name[Len(args.controller_name) + 1] = "-"

\* the rule as stated: direct owner for StatefulSet/DaemonSet, ReplicaSet
\* prefix for Deployment
StatedRule(p) ==
  IF ControllerKind(args.controller) = "Deployment"
  THEN OwnedThroughReplicaSet(p)
  ELSE OwnedDirectly(p)

\* the rule of the code: a Deployment also matches its direct owner reference
AmendedRule(p) ==
  \/ OwnedDirectly(p)
  \/ ControllerKind(args.controller) = "Deployment" /\ OwnedThroughReplicaSet(p)

NamesOf(pods) == [i \in 1..Len(pods) |-> pods[i].name]

\* C10 (as claimed): the result is exactly the pods of the stated rule.
C10_Original ==
  ListingRead => matching_pods = NamesOf(SelectSeq(pods_data.items, StatedRule))

\* C10 (amended): the result is, in listing order and once each, exactly the
\* pods with an owner reference whose kind and name equal the controller's
\* (any kind, Deployment included) and, for a Deployment, the pods with a
\* ReplicaSet owner reference whose name starts with "<controllerName>-".
C10_ExactlyTheOwnedPods ==
  ListingRead => matching_pods = NamesOf(SelectSeq(pods_data.items, AmendedRule))

\* a Deployment: of two pods only the second is owned, through a ReplicaSet
C10_Witness ==
  /\ ListingRead
  /\ ControllerKind(args.controller) = "Deployment"
  /\ Len(pods_data.items) = 2
  /\ matching_pods = <<PodNames[2]>>
  /\ OwnedThroughReplicaSet(pods_data.items[2])
  /\ ~OwnedDirectly(pods_data.items[2])


\* positions of the listing whose pod the controller owns
Matches == {i \in 1..Len(pods_data.items) : AmendedRule(pods_data.items[i])}

\* C11: in controller mode, when the listing has matching pods the selected
\* pod is the one at the lowest matching position of the listing and the
\* invocation goes on; when it has none, no pod is selected and the
\* invocation exits with a non-zero status.
C11_FirstMatchingPod ==
  ListingRead =>
    IF Matches = {}
    THEN pod = None /\ pc = "exit" /\ exit_status # 0
    ELSE /\ \E i \in Matches :
              (\A j \in Matches : i <= j) /\ pod = pods_data.items[i].name
         /\ pc = "target_container"
         /\ exit_status = Running

\* two pods of the listing match and the first one is selected
C11_Witness ==
  /\ ListingRead
  /\ Matches = {1, 2}
  /\ pod = pods_data.items[1].name
  /\ pod # pods_data.items[2].name

\* a listing with pods of other controllers only: resolution fails
C11_WitnessNone ==
  /\ ListingRead
  /\ Len(pods_data.items) = 2
  /\ Matches = {}
  /\ pc = "exit"


\* a command of the operation was interrupted by the user
Interrupted == \E i \in 1..Len(issued) : issued[i].out = "interrupt"

\* C12: once a command of the operation (interactive session or backup) was
\* interrupted, nothing else of the operation is issued, the exit code is
\* 130 and not 1, and the process exits with 130 only after a cleanup
\* attempt that follows the interrupted command.
C12_InterruptExits130 ==
  Interrupted =>
    /\ pc \in {"cleanup", "exit"}
    /\ exit_code = 130 /\ exit_code # 1
    /\ \A i \in 1..Len(issued) :
         issued[i].out = "interrupt" =>
           \A j \in (i + 1)..Len(issued) : issued[j].cmd = "cleanup"
    /\ pc = "exit" =>
         /\ exit_status = 130
         /\ Cardinality(Issued("cleanup")) = 1
         /\ issued[Len(issued)].cmd = "cleanup"

\* an interactive session interrupted by the user, cleaned up, exit 130
C12_Witness ==
  /\ pc = "exit"
  /\ args.backup = None
  /\ \E i \in Issued("exec") : issued[i].out = "interrupt"
  /\ Issued("cleanup") # {}
  /\ exit_status = 130

\* a compressed backup interrupted during the archive command
C12_WitnessBackup ==
  /\ pc = "exit"
  /\ \E i \in Issued("archive") : issued[i].out = "interrupt"
  /\ Issued("cleanup") # {}
  /\ exit_status = 130


\* the interactive session ended by itself: the remote exit codes it returned
RemoteExitCodes ==
  {issued[i].rc : i \in {j \in Issued("exec") : issued[j].out = "tty"}}

\* C13 (as claimed): the process exits with status 0, 1 or 130.
C13_Original ==
  pc = "exit" => exit_status \in {0, 1, 130}

\* C13 (amended): the process exits with status 0, 1 or 130, or, in
\* interactive mode, with the exit code of the remote process; it has no
\* exit status before it exits.
C13_ExitStatuses ==
  /\ pc = "exit" =>
       \/ exit_status \in {0, 1, 130}
       \/ args.backup = None /\ exit_status \in RemoteExitCodes
  /\ pc # "exit" => exit_status = Running

\* the remote shell ended with 127 and so did the invocation
C13_Witness ==
  /\ pc = "exit"
  /\ args.backup = None
  /\ RemoteExitCodes = {127}
  /\ exit_status = 127


\* C14: when the interactive session ended by itself (no interrupt, no local
\* error), the exit code kept by main, and the status the process exits
\* with, is the exit code the remote process returned.
C14_RemoteExitCodePropagated ==
  (args.backup = None /\ RemoteExitCodes # {}) =>
     /\ pc \in {"cleanup", "exit"}
     /\ RemoteExitCodes = {exit_code}
     /\ pc = "exit" => RemoteExitCodes = {exit_status}

\* the remote process failed with 1; the cleanup command failed as well
C14_Witness ==
  /\ pc = "exit"
  /\ args.backup = None
  /\ RemoteExitCodes = {1}
  /\ exit_status = 1
  /\ \E i \in Issued("cleanup") : issued[i].rc # 0


\* the errors of the resolution phase and of the provisioning phase, as they
\* show once the process has exited
PodNotFound == pc = "exit" /\ args.pod # None /\ pod = None
NoMatchingPods == pc = "exit" /\ args.pod = None /\ pod = None
NoContainers == pc = "exit" /\ pod # None /\ target_container = None
NewContainerUnidentified == pc = "exit" /\ Issued("debug") # {} /\ NewNames = {}
ProvisionFailed ==
  pc = "exit" /\ wait_outcome \in {"failed_waiting", "failed_terminated"}
ProvisionTimedOut == pc = "exit" /\ wait_outcome = "timeout"

ResolutionOrProvisioningError ==
  \/ PodNotFound
  \/ NoMatchingPods
  \/ NoContainers
  \/ NewContainerUnidentified
  \/ ProvisionFailed
  \/ ProvisionTimedOut

\* commands of the Executor's operation and of the cleanup step
OperationCommands ==
  {i \in 1..Len(issued) : issued[i].cmd \notin {"debug"}}

\* C15: a resolution or provisioning error ends the invocation with a
\* non-zero status, with no command of an operation issued and at most one
\* creation request; a wait that did not return running leads to the exit
\* and nowhere else; resolution never runs a second time, a creation request
\* is never followed by another one, and nothing runs after the exit.
C15_ErrorsAreFatal ==
  /\ [](ResolutionOrProvisioningError =>
          /\ exit_status # 0
          /\ OperationCommands = {}
          /\ Cardinality(Issued("debug")) <= 1)
  /\ [][/\ pc # "select_pod" => pc' # "select_pod" /\ pod' = pod
        /\ Issued("debug") # {} => pc' # "launch" /\ Len(issued') >= Len(issued)
        /\ (pc = "poll_return" /\ wait_outcome # "running") =>
             pc' = "exit" /\ exit_status' # 0
        /\ pc = "exit" => UNCHANGED vars]_vars

\* --controller sts --controller-name w: the listing has no pod of w
C15_Witness ==
  /\ NoMatchingPods
  /\ pods_data.kind = "json"
  /\ Len(pods_data.items) = 2
  /\ stderr = <<"No pods found">>
  /\ exit_status = 1
  /\ issued = <<>>


\* C16: without --container, a target container is the first regular
\* container the pod declares (every pod of the model declares a prefix of
\* RegularNames), never an init or ephemeral container, and the creation
\* request names it; when the inventory has no regular container the
\* invocation exits with a non-zero status and no command was issued.
C16_FirstRegularContainer ==
  args.container = None =>
    /\ target_container # None =>
         /\ target_container = RegularNames[1]
         /\ target_container \notin Range(InitNames) \cup Range(EphemeralNames)
    /\ \A i \in Issued("debug") : issued[i].container = RegularNames[1]
    /\ (pc \notin {"select_pod", "target_container"} /\ pod # None
          /\ target_container = None) =>
         /\ pc = "exit"
         /\ exit_status # 0
         /\ issued = <<>>

\* the pod has an ephemeral container already; the creation request targets
\* the first regular container
C16_Witness ==
  /\ args.container = None
  /\ cluster_ephemeral # <<>>
  /\ existing_containers # <<>>
  /\ target_container = RegularNames[1]
  /\ \E i \in Issued("debug") : issued[i].container = RegularNames[1]


\* the controller aliases the tool supports
SupportedAliases ==
  {"deployment", "deploy", "statefulset", "sts", "daemonset", "ds"}

\* C17: in controller mode, an unsupported alias makes resolution fail (no
\* pod, non-zero exit) with the unknown-controller-type error reported first,
\* an error that is never reported for a supported alias, and without a pod
\* listing having been requested; for a supported alias the listing is
\* requested.
C17_UnknownControllerType ==
  (pc # "select_pod" /\ args.pod = None) =>
    IF args.controller \notin SupportedAliases
    THEN /\ pod = None
         /\ matching_pods = <<>>
         /\ pc = "exit"
         /\ exit_status # 0
         /\ stderr # <<>>
         /\ stderr[1] = "Unknown controller type"
         /\ stderr[1] # "No pods found"
         /\ pods_data = NoneOut
    ELSE /\ \A i \in 1..Len(stderr) : stderr[i] # "Unknown controller type"
         /\ pods_data # NoneOut

\* --controller job: the failure is reported without reading any listing
C17_Witness ==
  /\ pc = "exit"
  /\ args.controller = "job"
  /\ pod = None
  /\ pods_data = NoneOut
  /\ stderr = <<"Unknown controller type", "No pods found">>


\* C18: the cleanup step issues its command once and ends the process with
\* the exit code the operation left, unchanged, whatever the command
\* returned; the command is never issued a second time and nothing runs
\* after the exit.
C18_CleanupNeverEscalates ==
  /\ [](Cardinality(Issued("cleanup")) <= 1)
  /\ [][/\ pc = "cleanup" =>
             /\ issued' = Append(issued, issued'[Len(issued')])
             /\ issued'[Len(issued')].cmd = "cleanup"
             /\ exit_code' = exit_code
             /\ pc' = "exit"
             /\ exit_status' = exit_code
        /\ pc' = "cleanup" => pc # "cleanup"
        /\ pc = "exit" => UNCHANGED vars]_vars

\* a backup that succeeded although the cleanup command failed
C18_Witness ==
  /\ pc = "exit"
  /\ args.backup # None
  /\ \E i \in Issued("cleanup") : issued[i].rc # 0
  /\ exit_status = 0

\* main is in the try statement of the operation or in its finally clause
InOperation ==
  pc \in {"execute", "backup_archive", "backup_copy", "backup_remove", "cleanup"}

\* the container names used by the operation and the cleanup step
NamesUsed == {issued[i].container : i \in OperationCommands}

\* C19: the creation request is issued at most once; every command of the
\* operation and of the cleanup step names one and the same container, the
\* debug container that provisioning returned, a name that was new after
\* the creation request; once returned, that name never changes.
C19_OneDebugSession ==
  /\ [](Cardinality(Issued("debug")) <= 1)
  /\ [](OperationCommands # {} =>
          /\ Issued("debug") = {1}
          /\ NamesUsed = {debug_container}
          /\ debug_container \in NewNames)
  /\ [][InOperation => debug_container' = debug_container]_vars

\* a compressed backup: four commands and the cleanup in one debug container
C19_Witness ==
  /\ pc = "exit"
  /\ args.compress
  /\ Issued("rm") # {}
  /\ Cardinality(OperationCommands) = 5
  /\ NamesUsed = {debug_container}
  /\ existing_containers # <<>>

\* C20: the wait returns success only from a tick whose payload has an entry
\* of the debug container with a running state, on that tick (no sleep, no
\* further fetch, no time passes) and for good; the operation is entered
\* only from a wait that returned success, and no command of the operation
\* is ever issued otherwise.
C20_RunningObserved ==
  /\ [][/\ (wait_outcome' = "running" /\ wait_outcome # "running") =>
             /\ pc = "poll_process"
             /\ DebugEntries({"running"}) # {}
             /\ pc' = "poll_return"
             /\ ticks' = ticks /\ sleeps' = sleeps /\ elapsed' = elapsed
        /\ (pc = "poll_return" /\ wait_outcome = "running") =>
             pc' = "execute" /\ wait_outcome' = "running"
        /\ (pc' = "execute" /\ pc # "execute") =>
             pc = "poll_return" /\ wait_outcome = "running"]_vars
  /\ [](InOperation => wait_outcome = "running")
  /\ [](OperationCommands # {} => wait_outcome = "running")

\* running is read on the third tick, after two transient ticks
C20_Witness ==
  /\ pc = "poll_return"
  /\ wait_outcome = "running"
  /\ ticks = 3
  /\ sleeps = 2
  /\ DebugEntries({"running"}) # {}
  /\ Len(output.statuses) = 2


\* the tick read a terminated state, and no running or waiting state, for
\* the debug container
TerminatedObserved ==
  /\ DebugEntries({"terminated"}) # {}
  /\ DebugEntries({"running", "waiting"}) = {}

\* C21: a tick that reads a terminated state (and no running or waiting
\* state) for the debug container returns failure on that tick: no sleep, no
\* further fetch, no time passes, the loop never resumes and the invocation
\* exits with status 1.
C21_TerminatedFailsAtOnce ==
  [][/\ (pc = "poll_process" /\ TerminatedObserved) =>
          /\ pc' = "poll_return"
          /\ wait_outcome' = "failed_terminated"
          /\ sleeps' = sleeps
          /\ ticks' = ticks
          /\ elapsed' = elapsed
     /\ PollOver
     /\ (pc = "poll_return" /\ wait_outcome = "failed_terminated") =>
          pc' = "exit" /\ exit_status' = 1 /\ issued' = issued]_vars

\* the container is found terminated on the second tick
C21_Witness ==
  /\ pc = "poll_return"
  /\ wait_outcome = "failed_terminated"
  /\ ticks = 2
  /\ sleeps = 1
  /\ elapsed = PollInterval
  /\ TerminatedObserved


\* the tick fetched nothing (failed command, empty output) or a payload that
\* does not parse
BadPayload == output.kind \in {"None", "empty", "malformed"}

\* C22: a tick with an empty or unparseable payload changes nothing but the
\* clock: the loop sleeps once and is back at its condition with the same
\* last reason, nothing printed, no outcome and no exit; from its condition
\* the loop goes to the next fetch while the timeout has not passed and to
\* the timeout return after it (or the user interrupts).
C22_BadPayloadIsNoOp ==
  [][/\ (pc = "poll_process" /\ BadPayload) =>
          /\ pc' = "poll"
          /\ wait_outcome' = "pending"
          /\ last_reason' = last_reason
          /\ logged' = FALSE
          /\ sleeps' = sleeps + 1
          /\ ticks' = ticks
          /\ elapsed' = elapsed + 2
          /\ exit_status' = Running
          /\ debug_container' = debug_container
          /\ issued' = issued
     /\ pc = "poll" =>
          \/ elapsed < 60 /\ pc' = "poll_process" /\ ticks' = ticks + 1
          \/ elapsed >= 60 /\ pc' = "poll_return" /\ wait_outcome' = "timeout"
          \/ pc' = "exit" /\ exit_status' = 130]_vars

\* the second tick reads a payload that does not parse
C22_Witness ==
  /\ pc = "poll_process"
  /\ output = MalformedOut
  /\ ticks = 2
  /\ sleeps = 1
  /\ wait_outcome = "pending"

\* the last tick before the timeout reads an empty output
C22_WitnessEmpty ==
  /\ pc = "poll_process"
  /\ output = EmptyOut
  /\ ticks = 30


\* the reason a waiting entry shows: the reported one, "Unknown" without one
ShownReason(i) ==
  IF output.statuses[i].state.reason = None THEN "Unknown"
  ELSE output.statuses[i].state.reason

\* entries of the debug container that wait with a reason that is not a
\* terminal failure
TransientEntries ==
  {i \in DebugEntries({"waiting"}) : ShownReason(i) \notin TerminalReasons}

\* C23: a tick that reads a transient waiting reason for the debug container
\* sleeps and goes back to the loop condition with no outcome; it prints the
\* reason exactly when the reason differs from the last status printed, and
\* the reason is then the last status printed.
C23_TransientLoggedOncePerChange ==
  [][\A i \in TransientEntries :
       pc = "poll_process" =>
         /\ pc' = "poll"
         /\ wait_outcome' = "pending"
         /\ sleeps' = sleeps + 1
         /\ exit_status' = Running
         /\ logged' = (ShownReason(i) # last_reason)
         /\ last_reason' = ShownReason(i)]_vars

\* ContainerCreating is read again on the second tick: nothing to print
C23_Witness ==
  /\ pc = "poll_process"
  /\ ticks = 2
  /\ last_reason = "ContainerCreating"
  /\ \E i \in TransientEntries : ShownReason(i) = last_reason

\* the reason changes from ContainerCreating to a waiting state without one
C23_WitnessChange ==
  /\ pc = "poll_process"
  /\ last_reason = "ContainerCreating"
  /\ \E i \in TransientEntries : ShownReason(i) = "Unknown"


\* C24 (as claimed): the presence check examines the path inside the target
\* container: it runs in the target container, or it reaches the target's
\* filesystem from the debug container through /proc/1/root.
C24_PresenceCheckInTarget ==
  \A i \in Issued("verify") :
     \/ issued[i].container = target_container
     \/ issued[i].root = "/proc/1/root"


\* C25: whatever the fetches return, the wait returns, with exactly one of
\* the outcomes running, failed (terminal waiting reason or terminated) and
\* timed out, which it has only once it returns and which never changes; it
\* never fetches more than 60 / 2 + 1 times.
C25_WaitStops ==
  /\ <>(pc = "poll_return")
  /\ [](ticks <= (60 \div 2) + 1)
  /\ [](pc = "poll_return" <=>
          wait_outcome \in {"running", "failed_waiting", "failed_terminated",
                            "timeout"})
  /\ [](pc # "poll_return" => wait_outcome = "pending")
  /\ [][wait_outcome # "pending" => wait_outcome' = wait_outcome]_vars

\* thirty ticks without a status entry of the debug container, then the
\* timeout
C25_Witness ==
  /\ pc = "poll_return"
  /\ wait_outcome = "timeout"
  /\ ticks = 30
  /\ sleeps = 30
  /\ last_reason = None


\* C26 (as claimed): the name launch_debug_container returns is not the name
\* of an ephemeral container the pod had when the creation request was made.
C26_ReturnedNameIsNew ==
  (InOperation /\ Issued("debug") # {}) =>
     debug_container \notin Range(ephemeral_before)


\* entries of the fetched payload that belong to other containers
OtherEntries ==
  IF output.kind # "json" THEN {}
  ELSE {i \in 1..Len(output.statuses) :
          output.statuses[i].name # debug_container}

\* C27: a tick ends the wait with success only if an entry of the debug
\* container shows running, and with failure only if an entry of the debug
\* container shows terminated or a terminal waiting reason; a tick whose
\* payload has no running, waiting or terminated state under the debug
\* container's name has no outcome, whatever the entries of other
\* containers show.
C27_OnlyOwnEntriesDecide ==
  [][pc = "poll_process" =>
       /\ wait_outcome' = "running" => DebugEntries({"running"}) # {}
       /\ wait_outcome' = "failed_terminated" => DebugEntries({"terminated"}) # {}
       /\ wait_outcome' = "failed_waiting" => TerminalWaitingObserved
       /\ DebugEntries({"running", "waiting", "terminated"}) = {} =>
            /\ wait_outcome' = "pending"
            /\ pc' = "poll"
            /\ exit_status' = Running]_vars

\* another ephemeral container is listed first and runs; the debug container
\* is terminated and the wait fails
C27_Witness ==
  /\ pc = "poll_return"
  /\ wait_outcome = "failed_terminated"
  /\ Len(output.statuses) = 2
  /\ OtherEntries = {1}
  /\ output.statuses[1].state.keys = {"running"}
  /\ DebugEntries({"terminated"}) = {2}

\* only another container is listed, running: the tick has no outcome
C27_WitnessOther ==
  /\ pc = "poll_process"
  /\ ticks = 2
  /\ OtherEntries = {1}
  /\ Len(output.statuses) = 1
  /\ output.statuses[1].state.keys = {"running"}

====
